---- MODULE Spec2Model ----
(***************************************************************************)
(* golibrsync: the binding layer between Go byte streams and the librsync  *)
(* engine.  One Job (a delta generator) or one Patcher is constructed,     *)
(* read from and closed.  The engine (rs_job_iter and the rs_*_begin       *)
(* calls) is a black box: every result it may give is a nondeterministic   *)
(* choice.  A Read that enters the engine is followed step by step through *)
(* its call frames, so that a basis-read callback and a panic unwinding    *)
(* the frames are visible as states.                                       *)
(*                                                                         *)
(* Spec is the life of that one object.  SpecRegistry is the registry under *)
(* any sequence of its three calls, SpecThreads several threads that each  *)
(* own a Patcher, SpecConfig a call of NewSignatureGen with any Config and *)
(* SpecLoad a call of LoadSignature.  SpecClose adds Close calls on an     *)
(* object that is closed and on the Signature of a delta generator,        *)
(* SpecHelpers is a call of CreateDelta or of InstantDelta, and SpecLive   *)
(* the one object under a caller that reads on and never closes.           *)
(*                                                                         *)
(* Output bytes are numbered in the order the engine generates them: the   *)
(* k-th byte of the generated stream is the number k.                      *)
(***************************************************************************)
EXTENDS Integers, Sequences, FiniteSets, TLC

\* ------------------------------------------------------------- bounds
\* Capacity of the input and of the output staging buffer (16 * 1024 in the
\* source, scaled down).
inbufSize == 2
outbufSize == 2
\* Engine iterations run on one Job.
MaxIters == 2
\* Basis-read callbacks the engine issues within one iteration.
MaxCallbacks == 1
\* Largest length the engine requests from the basis in one callback.
MaxBufLen == 2
\* Largest caller buffer handed to Read.
MaxLenP == 2
\* Ids the registry is exercised with.
MaxRegIds == 2
\* Threads that each own a Patcher, and the callbacks each one's Reads issue.
NumThreads == 2
MaxLookups == 1
\* Largest block length and strong-hash length a Config is tried with, apart
\* from the defaults.
MaxCfgLen == 3
\* Close calls on one object.
MaxCloses == 2

\* ------------------------------------------------------------- values
\* The engine's defaults (librsync.h); the second one exists only in
\* librsync < 1.0.0.
RS_DEFAULT_BLOCK_LEN == 2048
RS_DEFAULT_STRONG_LEN == 8

Nil == "nil"
EOF == "io.EOF"
\* Failures of the upstream source or of the basis that are not end-of-data.
IOErrors == {"ErrIO1", "ErrIO2"}
ErrInputEnded == "ErrInputEnded"
ErrBadMagic == "ErrBadMagic"
ErrCorrupt == "ErrCorrupt"
ErrInternal == "ErrInternal"

\* What rs_job_iter may return; the last one stands for the codes the switch
\* of jobIter does not enumerate.
EngineStatuses ==
    {"RS_DONE", "RS_BLOCKED", "RS_INPUT_ENDED", "RS_BAD_MAGIC", "RS_CORRUPT",
     "RS_INTERNAL_ERROR", "RS_IO_ERROR"}

ErrUnexpected(res) == "Unexpected result from library: " \o res

\* What an io.Reader or io.ReaderAt may return as its error.
ReaderErrors == {Nil, EOF} \cup IOErrors

NoPanic == [kind |-> "none", err |-> Nil]
\* panic(jobInternalPanic{err}) of the patch callback.
JobInternalPanic(e) == [kind |-> "jobInternalPanic", err |-> e]
\* Any other panic value: a string of the registry, a runtime error.
OtherPanic(msg) == [kind |-> "other", err |-> msg]

Top(s) == s[Len(s)]
Pop(s) == SubSeq(s, 1, Len(s) - 1)

\* The descriptor addresses malloc may hand out; 0 is the nil pointer.
Addrs == {1}

\* ------------------------------------------------------------- registry
\* storePatcher with the check for a stored id left out.
storePatcherOverwrites(st, patcher, id) ==
    [store |-> [i \in DOMAIN st \cup {id} |-> IF i = id THEN patcher ELSE st[i]],
     panic |-> NoPanic]

\* storePatcher: a map from id to Patcher; storing a stored id panics.
storePatcher(st, patcher, id) ==
    IF id \in DOMAIN st
    THEN [store |-> st, panic |-> OtherPanic("pointer already stored")]
    ELSE [store |-> [i \in DOMAIN st \cup {id} |->
                        IF i = id THEN patcher ELSE st[i]],
          panic |-> NoPanic]

\* getPatcher: the stored Patcher, nil when there is none.
getPatcher(st, id) == IF id \in DOMAIN st THEN st[id] ELSE Nil

\* dropPatcher with the entry left in the map.
dropPatcherKeepsEntry(st, id) ==
    IF id \notin DOMAIN st
    THEN [store |-> st, panic |-> OtherPanic("pointer not stored")]
    ELSE [store |-> st, panic |-> NoPanic]

\* dropPatcher: dropping an id that is not stored panics.
dropPatcher(st, id) ==
    IF id \notin DOMAIN st
    THEN [store |-> st, panic |-> OtherPanic("pointer not stored")]
    ELSE [store |-> [i \in DOMAIN st \ {id} |-> st[i]], panic |-> NoPanic]

\* ------------------------------------------------------------- Config
\* The engine the binding is built against.
Builds == {"librsync>=1.0.0", "librsync<1.0.0"}

DefaultBlockLen == RS_DEFAULT_BLOCK_LEN
\* DEFAULT_STRONG_LEN: 0 (the full size) for librsync >= 1.0.0, else the
\* engine's RS_DEFAULT_STRONG_LEN.
DefaultStrongLen(build) ==
    IF build = "librsync>=1.0.0" THEN 0 ELSE RS_DEFAULT_STRONG_LEN

ZeroConfig == [BlockLen |-> 0, StrongLen |-> 0, CompatMD4 |-> FALSE]

\* setup with the strong-hash length left as it is.
setupBlockLenOnly(c, build) ==
    [c EXCEPT !.BlockLen = IF @ = 0 THEN DefaultBlockLen ELSE @]

\* Config.setup: a zero BlockLen or StrongLen becomes the default.
setup(c, build) ==
    [c EXCEPT !.BlockLen = IF @ = 0 THEN DefaultBlockLen ELSE @,
              !.StrongLen = IF @ = 0 THEN DefaultStrongLen(build) ELSE @]

\* ------------------------------------------------------------- Signature and the helpers, piece by piece
\* Signature.Close has a value receiver: it frees the index when the sig
\* field is not nil and sets the field of its own copy to nil, the caller's
\* Signature keeps the pointer.
SignatureClose(sm) ==
    IF sm.held THEN [sm EXCEPT !.state = "freed", !.frees = @ + 1] ELSE sm

\* RunDeferred with the deferred calls run in the order of their defer
\* statements.
RunDeferredFirstIn(d) == [call |-> Head(d), rest |-> Tail(d)]

\* A returning function runs its deferred calls last in, first out.
RunDeferred(d) == [call |-> d[Len(d)], rest |-> SubSeq(d, 1, Len(d) - 1)]

\* One round of io.Copy after Read returned (nr, er), the writer answering
\* ew to the nr bytes: a write error ends it, then the reader's error.
CopyStep(nr, er, ew) ==
    IF nr > 0 /\ ew # Nil THEN [done |-> TRUE, err |-> ew]
    ELSE IF er # Nil THEN [done |-> TRUE, err |-> IF er = EOF THEN Nil ELSE er]
    ELSE [done |-> FALSE, err |-> Nil]

\* ------------------------------------------------------------- LoadSignature, piece by piece
\* io.Copy ends at the first error of the reader and does not report io.EOF.
CopyResult(er) == IF er = EOF THEN Nil ELSE er

\* LoadAfterCopy with the result of io.Copy not looked at.
LoadAfterCopyAlwaysBuilds(err) == "build"

\* LoadSignature after io.Copy: an error returns, success goes on to
\* rs_build_hash_table.
LoadAfterCopy(err) == IF err # Nil THEN "return" ELSE "build"

\* ------------------------------------------------------------- the engine's status
\* JobIterResult with the Job left running after RS_INPUT_ENDED.
JobIterResultKeepsRunning(res) ==
    CASE res = "RS_DONE" -> [running |-> FALSE, err |-> Nil]
      [] res = "RS_BLOCKED" -> [running |-> TRUE, err |-> Nil]
      [] res = "RS_INPUT_ENDED" -> [running |-> TRUE, err |-> ErrInputEnded]
      [] res = "RS_BAD_MAGIC" -> [running |-> FALSE, err |-> ErrBadMagic]
      [] res = "RS_CORRUPT" -> [running |-> FALSE, err |-> ErrCorrupt]
      [] res = "RS_INTERNAL_ERROR" -> [running |-> FALSE, err |-> ErrInternal]
      [] OTHER -> [running |-> FALSE, err |-> ErrUnexpected(res)]

\* jobIter's switch: the (running, err) pair for a status of rs_job_iter.
JobIterResult(res) ==
    CASE res = "RS_DONE" -> [running |-> FALSE, err |-> Nil]
      [] res = "RS_BLOCKED" -> [running |-> TRUE, err |-> Nil]
      [] res = "RS_INPUT_ENDED" -> [running |-> FALSE, err |-> ErrInputEnded]
      [] res = "RS_BAD_MAGIC" -> [running |-> FALSE, err |-> ErrBadMagic]
      [] res = "RS_CORRUPT" -> [running |-> FALSE, err |-> ErrCorrupt]
      [] res = "RS_INTERNAL_ERROR" -> [running |-> FALSE, err |-> ErrInternal]
      [] OTHER -> [running |-> FALSE, err |-> ErrUnexpected(res)]

\* JobIterRecover with every panic value recovered into an error.
JobIterRecoverAll(p) ==
    [recovered |-> TRUE, running |-> FALSE, err |-> p.err]

\* jobIter's deferred function: a jobInternalPanic is recovered into
\* (false, jp.err); any other panic value is raised again.
JobIterRecover(p) ==
    IF p.kind = "jobInternalPanic"
    THEN [recovered |-> TRUE, running |-> FALSE, err |-> p.err]
    ELSE [recovered |-> FALSE, running |-> FALSE, err |-> Nil]

\* ------------------------------------------------------------- Job.Read, piece by piece
\* ServePending with nothing served.
ServePendingNothing(pending, lenP) ==
    [n |-> 0, err |-> Nil, filled |-> <<>>]

\* Read with pending output: serve as many bytes as the caller's buffer holds.
ServePending(pending, lenP) ==
    LET readN == IF Len(pending) > lenP THEN lenP ELSE Len(pending)
    IN [n |-> readN, err |-> Nil, filled |-> SubSeq(pending, 1, readN)]

\* ReadNotRunning with the end of the stream reported as (0, nil).
ReadNotRunningNoEOF(jerr) ==
    [n |-> 0, err |-> jerr, filled |-> <<>>]

\* Read on a Job that is not running: the stored error, else io.EOF.
ReadNotRunning(jerr) ==
    IF jerr # Nil
    THEN [n |-> 0, err |-> jerr, filled |-> <<>>]
    ELSE [n |-> 0, err |-> EOF, filled |-> <<>>]

\* FillInput with the source's error returned but not stored in job.err.
FillInputErrNotStored(availIn, eofIn, n, e) ==
    CASE e = Nil -> [fatal |-> FALSE, jerr |-> Nil, avail_in |-> n, eof_in |-> eofIn]
      [] e = EOF -> [fatal |-> FALSE, jerr |-> Nil, avail_in |-> n, eof_in |-> 1]
      [] OTHER -> [fatal |-> TRUE, jerr |-> Nil, avail_in |-> availIn, eof_in |-> eofIn]

\* FillInput with every short read that is not end-of-data made fatal.
FillInputShortFatal(availIn, eofIn, n, e) ==
    CASE e = Nil /\ n = inbufSize ->
            [fatal |-> FALSE, jerr |-> Nil, avail_in |-> n, eof_in |-> eofIn]
      [] e = EOF -> [fatal |-> FALSE, jerr |-> Nil, avail_in |-> n, eof_in |-> 1]
      [] e = Nil -> [fatal |-> TRUE, jerr |-> "ErrShortRead", avail_in |-> availIn,
                     eof_in |-> eofIn]
      [] OTHER -> [fatal |-> TRUE, jerr |-> e, avail_in |-> availIn, eof_in |-> eofIn]

\* The switch on the error of job.in.Read, which returned (n, e) into the
\* input staging buffer: nil stages n bytes, io.EOF also sets eof_in, any
\* other error is stored and stops the Job before anything is staged.
FillInput(availIn, eofIn, n, e) ==
    CASE e = Nil -> [fatal |-> FALSE, jerr |-> Nil, avail_in |-> n, eof_in |-> eofIn]
      [] e = EOF -> [fatal |-> FALSE, jerr |-> Nil, avail_in |-> n, eof_in |-> 1]
      [] OTHER -> [fatal |-> TRUE, jerr |-> e, avail_in |-> availIn, eof_in |-> eofIn]

\* The end of Read, after jobIter gave err and the engine advanced next_out
\* by outN: an error returns (outN, err), success returns the zero values.
ReadTail(err, outN) ==
    IF err # Nil
    THEN [n |-> outN, err |-> err, filled |-> <<>>]
    ELSE [n |-> 0, err |-> Nil, filled |-> <<>>]

\* PatchCallbackResult with every short basis read raised as a fault.
PatchCallbackShortPanics(n, buflen, e) ==
    IF n < buflen
    THEN [ret |-> "panic", panic |-> JobInternalPanic(e)]
    ELSE [ret |-> "RS_DONE", panic |-> NoPanic]

\* patchCallbackGo after basis.ReadAt returned (n, e) for buflen bytes.
PatchCallbackResult(n, buflen, e) ==
    IF n < buflen
    THEN IF e # EOF
         THEN [ret |-> "panic", panic |-> JobInternalPanic(e)]
         ELSE [ret |-> "RS_INPUT_ENDED", panic |-> NoPanic]
    ELSE [ret |-> "RS_DONE", panic |-> NoPanic]

\* ------------------------------------------------------------- Close
NoneFreed == [rsbufs |-> 0, session |-> 0, inbuf |-> 0, outbuf |-> 0, pbuf |-> 0]

\* JobClose with the input staging buffer left allocated.
JobCloseLeaksInbuf(rb, se, fr) ==
    [rsbufs |-> 0, session |-> "nil",
     freed |-> [fr EXCEPT !.rsbufs = @ + (IF rb # 0 THEN 1 ELSE 0),
                          !.session = @ + (IF se # "nil" THEN 1 ELSE 0),
                          !.outbuf = @ + 1]]

\* Job.Close: the descriptor and the session are freed when not nil and set
\* to nil; the two staging buffers are freed.
JobClose(rb, se, fr) ==
    [rsbufs |-> 0, session |-> "nil",
     freed |-> [fr EXCEPT !.rsbufs = @ + (IF rb # 0 THEN 1 ELSE 0),
                          !.session = @ + (IF se # "nil" THEN 1 ELSE 0),
                          !.inbuf = @ + 1,
                          !.outbuf = @ + 1]]

\* Patcher.Close: dropPatcher of the descriptor's address (a panic leaves the
\* rest undone), the scratch buffer is freed when not nil, then Job.Close.
PatcherClose(st, rb, se, pb, fr) ==
    LET d == dropPatcher(st, rb)
        j == JobClose(rb, se, [fr EXCEPT !.pbuf = @ + (IF pb # "nil" THEN 1 ELSE 0)])
    IN IF d.panic # NoPanic
       THEN [panic |-> d.panic, store |-> st, rsbufs |-> rb, session |-> se,
             pbuf |-> pb, freed |-> fr, drops |-> 0]
       ELSE [panic |-> NoPanic, store |-> d.store, rsbufs |-> j.rsbufs,
             session |-> j.session,
             pbuf |-> IF pb # "nil" THEN "freed" ELSE "nil",
             freed |-> j.freed, drops |-> 1]

\* ------------------------------------------------------------- state
VARIABLES
    phase,     \* "new", "open", "closed", "failed": the object's life
    kind,      \* "job" (a delta generator) or "patcher"
    ctor,      \* how the factory call ended
    rsbufs,    \* job.rsbufs: the descriptor's address, 0 for nil
    session,   \* job.job: "nil" or "live"
    pbuf,      \* patcher.buf: "nil", "alloc" or "freed"
    freed,     \* how often each resource was released
    store,     \* patcherStore.store
    dropped,   \* successful dropPatcher calls
    running,   \* job.running
    jerr,      \* job.err
    avail_in,  \* job.rsbufs.avail_in
    eof_in,    \* job.rsbufs.eof_in
    outmem,    \* the bytes in the output staging buffer
    outLo,     \* job.outbuf is outmem[outLo+1 .. outHi]
    outHi,
    stack,     \* the call frames of the Read in progress
    panic,     \* the panic that is unwinding the frames
    call,      \* the Read in progress, or the last one
    cb,        \* the last basis-read callback
    cbCount,   \* callbacks of the iteration in progress
    iters,     \* engine iterations entered
    gen,       \* bytes the engine generated
    recv,      \* bytes copied into the caller's buffers
    hist,      \* what happened to the Job so far
    reg,       \* the last call of storePatcher, getPatcher or dropPatcher
    life,      \* per id: "never" stored, "stored" or "dropped" since
    thr,       \* per thread: where it is in the life of its Patcher
    lock,      \* patcherStore.lock: 0 when free, else the holding thread
    heap,      \* the descriptor addresses that are allocated
    cfg,       \* a NewSignatureGen call: its Config and what the engine got
    ld,        \* a LoadSignature call
    sumset,    \* the signature index a Signature points to
    hp         \* a call of the helper CreateDelta or InstantDelta

vars == <<phase, kind, ctor, rsbufs, session, pbuf, freed, store, dropped,
          running, jerr, avail_in, eof_in, outmem, outLo, outHi, stack, panic,
          call, cb, cbCount, iters, gen, recv, hist,
          reg, life, thr, lock, heap, cfg, ld, sumset, hp>>

\* The variables of the registry calls, of the threads, of NewSignatureGen,
\* of LoadSignature, of a Signature and of the helpers, which the life of a
\* single object leaves alone.
auxVars == <<reg, life, thr, lock, heap, cfg, ld, sumset, hp>>

jobVars == <<running, jerr, avail_in, eof_in, outmem, outLo, outHi>>
readVars == <<stack, panic, call, cb, cbCount, iters, gen, recv, hist>>

\* Pending with job.outbuf not advanced past the bytes already served.
PendingNotAdvanced == SubSeq(outmem, 1, outHi)

\* Pending with the first queued byte skipped.
PendingDropsFirst == SubSeq(outmem, outLo + 2, outHi)

\* job.outbuf: the output that is queued for the caller.
Pending == SubSeq(outmem, outLo + 1, outHi)

NoCall ==
    [state |-> "none", lenP |-> 0, n |-> 0, err |-> Nil, filled |-> <<>>,
     readSrc |-> FALSE, srcN |-> 0, srcErr |-> Nil, ranIter |-> FALSE,
     cbFault |-> FALSE, cbEnded |-> FALSE, recvBefore |-> 0, pre |-> [pending |-> 0,
     iterFail |-> Nil, doneServed |-> FALSE, srcFail |-> Nil, cbFault |-> FALSE,
     availIn |-> 0, eofIn |-> 0, failed |-> FALSE],
     cbErr |-> Nil, cbOther |-> FALSE]

NoCb == [len |-> 0, n |-> 0, err |-> Nil, ret |-> "none", owner |-> Nil]

NoHist ==
    [iterFail |-> Nil, engDone |-> FALSE, srcFail |-> Nil, cbFault |-> FALSE,
     srcEOF |-> FALSE, failed |-> FALSE, res |-> "none"]

NoCtor == [result |-> "none", panic |-> NoPanic, beginFailed |-> FALSE, id |-> 0]

\* A Job or Patcher object before its factory is called.
ObjectInit ==
    /\ phase = "new"
    /\ kind \in {"job", "patcher"}
    /\ ctor = NoCtor
    /\ rsbufs = 0
    /\ session = "nil"
    /\ pbuf = "nil"
    /\ freed = NoneFreed
    /\ store = <<>>
    /\ dropped = 0
    /\ running = FALSE
    /\ jerr = Nil
    /\ avail_in = 0
    /\ eof_in = 0
    /\ outmem = [i \in 1..outbufSize |-> 0]
    /\ outLo = 0
    /\ outHi = 0
    /\ stack = <<>>
    /\ panic = NoPanic
    /\ call = NoCall
    /\ cb = NoCb
    /\ cbCount = 0
    /\ iters = 0
    /\ gen = 0
    /\ recv = <<>>
    /\ hist = NoHist

RegIds == 1..MaxRegIds
Threads == 1..NumThreads

NoRegOp ==
    [op |-> "none", id |-> 0, patcher |-> Nil, panic |-> NoPanic, got |-> Nil,
     before |-> <<>>, lifeBefore |-> "never"]

NoThread ==
    [pc |-> "start", addr |-> 0, got |-> Nil, lookups |-> 0, began |-> TRUE,
     drops |-> 0]

NoCfg ==
    [state |-> "none", build |-> 0, in |-> [BlockLen |-> 0, StrongLen |-> 0,
     CompatMD4 |-> FALSE], called |-> [BlockLen |-> 0, StrongLen |-> 0,
     CompatMD4 |-> FALSE], args |-> <<>>, result |-> "none"]

NoLoad ==
    [pc |-> "none", job |-> FALSE, began |-> FALSE, err |-> Nil, builds |-> 0,
     closes |-> 0, written |-> 0]

\* held: the sig field of the caller's Signature is not nil.
NoSumset == [state |-> "none", held |-> FALSE, builds |-> 0, frees |-> 0]

\* What LoadSignature returns when it succeeds.
BuiltSumset == [state |-> "built", held |-> TRUE, builds |-> 1, frees |-> 0]

NoHelper ==
    [fn |-> "none", pc |-> "none", defers |-> <<>>, err |-> Nil, siggen |-> "none",
     copied |-> FALSE]

\* Nothing but the one object is in use.
AuxIdle ==
    /\ reg = NoRegOp
    /\ life = [i \in RegIds |-> "never"]
    /\ thr = [t \in Threads |-> NoThread]
    /\ lock = 0
    /\ heap = {}
    /\ cfg = NoCfg
    /\ ld = NoLoad
    /\ sumset = NoSumset
    /\ hp = NoHelper

Init == ObjectInit /\ AuxIdle

\* ------------------------------------------------------------- factories
\* newJob, then rs_delta_begin: a session that does not begin closes the Job
\* and returns an error.
NewDeltaGen ==
    /\ phase = "new"
    /\ kind = "job"
    /\ \E addr \in Addrs \cup {0}, began \in BOOLEAN :
         IF addr = 0
         THEN /\ phase' = "failed"
              /\ ctor' = [NoCtor EXCEPT !.result = "error"]
              /\ UNCHANGED <<rsbufs, session, freed, running>>
         ELSE IF began
         THEN /\ phase' = "open"
              /\ ctor' = [NoCtor EXCEPT !.result = "ok", !.id = addr]
              /\ rsbufs' = addr
              /\ session' = "live"
              /\ running' = TRUE
              /\ UNCHANGED freed
         ELSE LET c == JobClose(addr, "nil", freed)
              IN /\ phase' = "failed"
                 /\ ctor' = [NoCtor EXCEPT !.result = "error",
                                           !.beginFailed = TRUE, !.id = addr]
                 /\ rsbufs' = c.rsbufs
                 /\ session' = c.session
                 /\ freed' = c.freed
                 /\ running' = TRUE
    /\ UNCHANGED <<kind, pbuf, store, dropped, jerr, avail_in, eof_in, outmem,
                   outLo, outHi>>
    /\ UNCHANGED readVars

\* newJob, storePatcher under the descriptor's address, then rs_patch_begin:
\* a session that does not begin drops the id, closes the Patcher and
\* returns an error.
NewPatcher ==
    /\ phase = "new"
    /\ kind = "patcher"
    /\ \E addr \in Addrs \cup {0}, began \in BOOLEAN :
         IF addr = 0
         THEN /\ phase' = "failed"
              /\ ctor' = [NoCtor EXCEPT !.result = "error"]
              /\ UNCHANGED <<rsbufs, session, pbuf, freed, store, dropped, running>>
         ELSE LET s == storePatcher(store, "P", addr)
              IN IF s.panic # NoPanic
                 THEN /\ phase' = "failed"
                      /\ ctor' = [NoCtor EXCEPT !.result = "panic",
                                                !.panic = s.panic, !.id = addr]
                      /\ rsbufs' = addr
                      /\ running' = TRUE
                      /\ UNCHANGED <<session, pbuf, freed, store, dropped>>
                 ELSE IF began
                 THEN /\ phase' = "open"
                      /\ ctor' = [NoCtor EXCEPT !.result = "ok", !.id = addr]
                      /\ rsbufs' = addr
                      /\ session' = "live"
                      /\ store' = s.store
                      /\ running' = TRUE
                      /\ UNCHANGED <<pbuf, freed, dropped>>
                 ELSE LET d == dropPatcher(s.store, addr)
                          cl == PatcherClose(d.store, addr, "nil", pbuf, freed)
                          c == IF d.panic # NoPanic
                               THEN [panic |-> d.panic, store |-> d.store,
                                     rsbufs |-> addr, session |-> "nil",
                                     pbuf |-> pbuf, freed |-> freed, drops |-> 0]
                               ELSE [cl EXCEPT !.drops = @ + 1]
                      IN /\ phase' = "failed"
                         /\ ctor' = [result |->
                                        IF c.panic # NoPanic THEN "panic" ELSE "error",
                                     panic |-> c.panic, beginFailed |-> TRUE,
                                     id |-> addr]
                         /\ rsbufs' = c.rsbufs
                         /\ session' = c.session
                         /\ pbuf' = c.pbuf
                         /\ freed' = c.freed
                         /\ store' = c.store
                         /\ dropped' = dropped + c.drops
                         /\ running' = TRUE
    /\ UNCHANGED <<kind, jerr, avail_in, eof_in, outmem, outLo, outHi>>
    /\ UNCHANGED readVars

\* ------------------------------------------------------------- Job.Read
\* What a Read finds when it is called.
Pre ==
    [pending |-> Len(Pending),
     iterFail |-> hist.iterFail,
     doneServed |-> hist.engDone /\ Len(Pending) = 0,
     srcFail |-> hist.srcFail,
     cbFault |-> hist.cbFault,
     availIn |-> avail_in,
     eofIn |-> eof_in,
     failed |-> hist.failed]

Called(lenP) ==
    [NoCall EXCEPT !.lenP = lenP, !.recvBefore = Len(recv), !.pre = Pre]

Returned(c, r) ==
    [c EXCEPT !.state = "returned", !.n = r.n, !.err = r.err, !.filled = r.filled]

\* A Read can be called on an open object between two calls; a panic that
\* left Read ended the reading.
CanRead ==
    phase = "open" /\ stack = <<>> /\ panic = NoPanic /\ call.state # "panicked"

\* Read, output pending: serve from it and return.
ReadServe(lenP) ==
    /\ CanRead
    /\ Len(Pending) > 0
    /\ LET r == ServePending(Pending, lenP)
       IN /\ outLo' = outLo + r.n
          /\ recv' = recv \o r.filled
          /\ call' = Returned(Called(lenP), r)
    /\ UNCHANGED <<phase, kind, ctor, rsbufs, session, pbuf, freed, store, dropped,
                   running, jerr, avail_in, eof_in, outmem, outHi, stack, panic,
                   cb, cbCount, iters, gen, hist>>

\* Read, nothing pending and the Job not running: the stored error or io.EOF.
ReadStopped(lenP) ==
    /\ CanRead
    /\ Len(Pending) = 0
    /\ ~running
    /\ call' = Returned(Called(lenP), ReadNotRunning(jerr))
    /\ UNCHANGED <<phase, kind, ctor, rsbufs, session, pbuf, freed, store, dropped>>
    /\ UNCHANGED jobVars
    /\ UNCHANGED <<stack, panic, cb, cbCount, iters, gen, recv, hist>>

\* NeedsInput with the end-of-input flag not looked at.
NeedsInputIgnoresEOF == avail_in = 0

\* The source is read when nothing is staged and no end of input was seen.
NeedsInput == avail_in = 0 /\ eof_in = 0

\* Read, running, the input staging buffer empty and no end of input yet:
\* the source's Read fails with an error that is not io.EOF.
ReadSourceFails(lenP) ==
    /\ CanRead
    /\ Len(Pending) = 0
    /\ running
    /\ NeedsInput
    /\ \E n \in 0..inbufSize, e \in ReaderErrors :
         LET f == FillInput(avail_in, eof_in, n, e)
         IN /\ f.fatal
            /\ jerr' = f.jerr
            /\ running' = FALSE
            /\ call' = [Returned(Called(lenP), [n |-> 0, err |-> f.jerr, filled |-> <<>>])
                          EXCEPT !.readSrc = TRUE, !.srcN = n,
                                  !.srcErr = e]
            /\ hist' = [hist EXCEPT !.srcFail = e, !.failed = TRUE]
    /\ UNCHANGED <<phase, kind, ctor, rsbufs, session, pbuf, freed, store, dropped,
                   avail_in, eof_in, outmem, outLo, outHi, stack, panic, cb,
                   cbCount, iters, gen, recv>>

\* Read, running: the input is filled when needed, job.outbuf becomes the
\* whole output staging buffer and jobIter calls rs_job_iter.
ReadEnterEngine(lenP) ==
    /\ CanRead
    /\ Len(Pending) = 0
    /\ running
    /\ iters < MaxIters
    /\ IF NeedsInput
       THEN \E n \in 0..inbufSize, e \in ReaderErrors :
              LET f == FillInput(avail_in, eof_in, n, e)
              IN /\ ~f.fatal
                 /\ avail_in' = f.avail_in
                 /\ eof_in' = f.eof_in
                 /\ call' = [Called(lenP) EXCEPT !.state = "running",
                               !.ranIter = TRUE, !.readSrc = TRUE,
                               !.srcN = n, !.srcErr = e]
                 /\ hist' = [hist EXCEPT !.srcEOF = @ \/ (e = EOF), !.res = "none"]
       ELSE /\ call' = [Called(lenP) EXCEPT !.state = "running", !.ranIter = TRUE]
            /\ hist' = [hist EXCEPT !.res = "none"]
            /\ UNCHANGED <<avail_in, eof_in>>
    /\ outLo' = 0
    /\ outHi' = outbufSize
    /\ stack' = <<"Read", "jobIter", "rs_job_iter">>
    /\ iters' = iters + 1
    /\ cbCount' = 0
    /\ UNCHANGED <<phase, kind, ctor, rsbufs, session, pbuf, freed, store, dropped,
                   running, jerr, outmem, panic, cb, gen, recv>>

InEngine == stack # <<>> /\ Top(stack) = "rs_job_iter" /\ panic = NoPanic

\* The engine, inside rs_job_iter of a patch session, asks for len bytes of
\* the basis: patchCallbackGo looks its Patcher up, replaces the scratch
\* buffer and reads the basis, which returns (n, e) or panics itself.
EngineCallback ==
    /\ InEngine
    /\ kind = "patcher"
    /\ cbCount < MaxCallbacks
    /\ cbCount' = cbCount + 1
    /\ \E len \in 1..MaxBufLen, e \in ReaderErrors, basisPanics \in BOOLEAN :
         \E n \in 0..len :
           LET owner == getPatcher(store, ctor.id)
               r == PatchCallbackResult(n, len, e)
               fault == n < len /\ e # EOF
           IN IF owner = Nil
              THEN /\ panic' = OtherPanic("nil pointer dereference")
                   /\ stack' = Append(stack, "patchCallbackGo")
                   /\ cb' = [len |-> len, n |-> 0, err |-> Nil, ret |-> "panic",
                             owner |-> owner]
                   /\ call' = [call EXCEPT !.cbOther = TRUE]
                   /\ UNCHANGED <<pbuf, hist>>
              ELSE IF basisPanics
              THEN /\ n = 0 /\ e = Nil
                   /\ pbuf' = "alloc"
                   /\ panic' = OtherPanic("panic in basis.ReadAt")
                   /\ stack' = Append(stack, "patchCallbackGo")
                   /\ cb' = [len |-> len, n |-> 0, err |-> Nil, ret |-> "panic",
                             owner |-> owner]
                   /\ call' = [call EXCEPT !.cbOther = TRUE]
                   /\ UNCHANGED hist
              ELSE /\ pbuf' = "alloc"
                   /\ cb' = [len |-> len, n |-> n, err |-> e, ret |-> r.ret,
                             owner |-> owner]
                   /\ panic' = r.panic
                   /\ stack' = IF r.ret = "panic"
                               THEN Append(stack, "patchCallbackGo")
                               ELSE stack
                   /\ call' = [call EXCEPT !.cbFault = @ \/ fault,
                                            !.cbErr = IF fault THEN e ELSE @,
                                            !.cbEnded = @ \/ (r.ret = "RS_INPUT_ENDED")]
                   /\ hist' = [hist EXCEPT !.cbFault = @ \/ fault]
    /\ UNCHANGED <<phase, kind, ctor, rsbufs, session, freed, store, dropped>>
    /\ UNCHANGED jobVars
    /\ UNCHANGED <<iters, gen, recv>>

\* The rest of Read once jobIter has given (run, err), the engine having
\* written k bytes and consumed c bytes of the staged input.
FinishRead(run, err, k, c) ==
    /\ outmem' = [i \in 1..outbufSize |-> IF i <= k THEN gen + i ELSE outmem[i]]
    /\ gen' = gen + k
    /\ outLo' = 0
    /\ outHi' = k
    /\ avail_in' = avail_in - c
    /\ running' = run
    /\ call' = Returned(call, ReadTail(err, k))
    /\ stack' = <<>>
    /\ panic' = NoPanic
    /\ cb' = NoCb
    /\ UNCHANGED <<jerr, eof_in, recv>>

\* rs_job_iter returns a status: jobIter maps it and Read finishes.
EngineReturn ==
    /\ InEngine
    /\ \E res \in EngineStatuses, k \in 0..outbufSize, c \in 0..avail_in :
         LET r == JobIterResult(res)
         IN /\ FinishRead(r.running, r.err, k, c)
            /\ hist' = [hist EXCEPT !.res = res,
                                    !.iterFail = r.err,
                                    !.engDone = (res = "RS_DONE"),
                                    !.failed = @ \/ (r.err # Nil)]
    /\ UNCHANGED <<phase, kind, ctor, rsbufs, session, pbuf, freed, store, dropped,
                   cbCount, iters>>

\* A panic unwinds one frame: the callback's and the engine's frames are
\* dropped, jobIter's deferred function recovers a jobInternalPanic and Read
\* finishes, any other panic leaves Read and reaches the caller.
Unwind ==
    /\ panic # NoPanic
    /\ stack # <<>>
    /\ IF Top(stack) \in {"patchCallbackGo", "rs_job_iter"}
       THEN /\ stack' = Pop(stack)
            /\ UNCHANGED <<panic, call, cb, gen, recv, hist>>
            /\ UNCHANGED jobVars
       ELSE LET r == JobIterRecover(panic)
            IN IF r.recovered
               THEN /\ \E k \in 0..outbufSize, c \in 0..avail_in :
                         FinishRead(r.running, r.err, k, c)
                    /\ hist' = [hist EXCEPT !.failed = @ \/ (r.err # Nil)]
               ELSE /\ stack' = <<>>
                    /\ call' = [call EXCEPT !.state = "panicked"]
                    /\ panic' = NoPanic
                    /\ cb' = NoCb
                    /\ UNCHANGED <<gen, recv, hist>>
                    /\ UNCHANGED jobVars
    /\ UNCHANGED <<phase, kind, ctor, rsbufs, session, pbuf, freed, store, dropped,
                   cbCount, iters>>

\* ------------------------------------------------------------- Close
\* The caller closes the object: Job.Close, or Patcher.Close for a Patcher.
Close ==
    /\ phase = "open"
    /\ stack = <<>>
    /\ IF kind = "patcher"
       THEN LET c == PatcherClose(store, rsbufs, session, pbuf, freed)
            IN /\ phase' = IF c.panic # NoPanic THEN "failed" ELSE "closed"
               /\ rsbufs' = c.rsbufs
               /\ session' = c.session
               /\ pbuf' = c.pbuf
               /\ freed' = c.freed
               /\ store' = c.store
               /\ dropped' = dropped + c.drops
       ELSE LET c == JobClose(rsbufs, session, freed)
            IN /\ phase' = "closed"
               /\ rsbufs' = c.rsbufs
               /\ session' = c.session
               /\ freed' = c.freed
               /\ UNCHANGED <<pbuf, store, dropped>>
    /\ UNCHANGED <<kind, ctor>>
    /\ UNCHANGED jobVars
    /\ UNCHANGED readVars

Read ==
    \E lenP \in 0..MaxLenP :
       \/ ReadServe(lenP)
       \/ ReadStopped(lenP)
       \/ ReadSourceFails(lenP)
       \/ ReadEnterEngine(lenP)

Next ==
    \/ NewDeltaGen /\ UNCHANGED auxVars
    \/ NewPatcher /\ UNCHANGED auxVars
    \/ Read /\ UNCHANGED auxVars
    \/ EngineCallback /\ UNCHANGED auxVars
    \/ EngineReturn /\ UNCHANGED auxVars
    \/ Unwind /\ UNCHANGED auxVars
    \/ Close /\ UNCHANGED auxVars

Spec == Init /\ [][Next]_vars

\* ------------------------------------------------------------- the registry, call by call
\* Any sequence of storePatcher, getPatcher and dropPatcher calls with any
\* ids; each call holds patcherStore.lock from its first to its last
\* statement, and a caller that recovers the panic of a call goes on.
RegPatchers == {"P", "Q"}

\* The variables of the single object, which the other specifications leave
\* in their initial state, the registry excepted.
objectVars == <<phase, kind, ctor, rsbufs, session, pbuf, freed, dropped,
                running, jerr, avail_in, eof_in, outmem, outLo, outHi, stack,
                panic, call, cb, cbCount, iters, gen, recv, hist>>

RegCalled(op, id, patcher) ==
    [NoRegOp EXCEPT !.op = op, !.id = id, !.patcher = patcher, !.before = store,
                    !.lifeBefore = life[id]]

RegStore ==
    \E id \in RegIds, patcher \in RegPatchers :
       LET r == storePatcher(store, patcher, id)
       IN /\ store' = r.store
          /\ reg' = [RegCalled("store", id, patcher) EXCEPT !.panic = r.panic]
          /\ life' = IF r.panic = NoPanic THEN [life EXCEPT ![id] = "stored"]
                     ELSE life

RegGet ==
    \E id \in RegIds :
       /\ reg' = [RegCalled("get", id, Nil) EXCEPT !.got = getPatcher(store, id)]
       /\ UNCHANGED <<store, life>>

RegDrop ==
    \E id \in RegIds :
       LET r == dropPatcher(store, id)
       IN /\ store' = r.store
          /\ reg' = [RegCalled("drop", id, Nil) EXCEPT !.panic = r.panic]
          /\ life' = IF r.panic = NoPanic THEN [life EXCEPT ![id] = "dropped"]
                     ELSE life

InitRegistry == ObjectInit /\ kind = "patcher" /\ AuxIdle

NextRegistry ==
    \/ RegStore /\ UNCHANGED <<objectVars, thr, lock, heap, cfg, ld, sumset, hp>>
    \/ RegGet /\ UNCHANGED <<objectVars, thr, lock, heap, cfg, ld, sumset, hp>>
    \/ RegDrop /\ UNCHANGED <<objectVars, thr, lock, heap, cfg, ld, sumset, hp>>

SpecRegistry == InitRegistry /\ [][NextRegistry]_vars

\* ------------------------------------------------------------- threads
\* Each thread creates its own Patcher, runs Reads whose callbacks look the
\* Patcher up, and closes it.  malloc gives a thread any address that is not
\* allocated; a registry function takes patcherStore.lock, runs its body and
\* releases the lock when it returns or panics.
ThreadAddrs == 1..NumThreads

\* The Patcher that thread t creates.
PatcherOf(t) == "Patcher" \o ToString(t)

\* MutexFree of a lock that excludes nobody.
MutexNeverHeld(l) == TRUE

\* sync.Mutex.Lock goes through only when no thread holds the mutex.
MutexFree(l) == l = 0

\* The positions at which a thread holds patcherStore.lock.
Holding == {"storing", "looking", "dropping"}

At(t, pc) == thr[t].pc = pc
Goto(t, pc) == thr' = [thr EXCEPT ![t].pc = pc]

\* newJob of NewPatcher: the descriptor is allocated, or NewPatcher returns
\* the error of newJob.
ThreadNewJob(t) ==
    /\ At(t, "start")
    /\ \E a \in (ThreadAddrs \ heap) \cup {0}, began \in BOOLEAN :
         IF a = 0
         THEN /\ began
              /\ Goto(t, "failed")
              /\ UNCHANGED heap
         ELSE /\ heap' = heap \cup {a}
              /\ thr' = [thr EXCEPT ![t].pc = "store", ![t].addr = a,
                                     ![t].began = began]
    /\ UNCHANGED <<store, lock>>

\* Lock() of storePatcher, getPatcher or dropPatcher.
ThreadLock(t) ==
    /\ thr[t].pc \in {"store", "look", "drop"}
    /\ MutexFree(lock)
    /\ lock' = t
    /\ Goto(t, CASE At(t, "store") -> "storing"
                  [] At(t, "look") -> "looking"
                  [] At(t, "drop") -> "dropping")
    /\ UNCHANGED <<store, heap>>

\* The body of storePatcher and the deferred Unlock; then rs_patch_begin,
\* after which NewPatcher returns the Patcher or, the session not having
\* begun, goes on to drop the entry.
ThreadStore(t) ==
    /\ At(t, "storing")
    /\ LET r == storePatcher(store, PatcherOf(t), thr[t].addr)
       IN /\ store' = r.store
          /\ Goto(t, IF r.panic # NoPanic THEN "panicked"
                     ELSE IF thr[t].began THEN "open" ELSE "drop")
    /\ lock' = 0
    /\ UNCHANGED heap

\* A Read of the thread enters the engine, which calls patchCallbackGo.
ThreadCallback(t) ==
    /\ At(t, "open")
    /\ thr[t].lookups < MaxLookups
    /\ thr' = [thr EXCEPT ![t].pc = "look", ![t].lookups = @ + 1, ![t].got = Nil]
    /\ UNCHANGED <<store, lock, heap>>

\* The body of getPatcher and the deferred Unlock.
ThreadGet(t) ==
    /\ At(t, "looking")
    /\ thr' = [thr EXCEPT ![t].pc = "open", ![t].got = getPatcher(store, thr[t].addr)]
    /\ lock' = 0
    /\ UNCHANGED <<store, heap>>

\* ThreadClose with the descriptor freed before the entry is dropped.
ThreadCloseFreesFirst(t) ==
    /\ At(t, "open")
    /\ heap' = heap \ {thr[t].addr}
    /\ Goto(t, "drop")
    /\ UNCHANGED <<store, lock>>

\* Patcher.Close is called.
ThreadClose(t) ==
    /\ At(t, "open")
    /\ Goto(t, "drop")
    /\ UNCHANGED <<store, lock, heap>>

\* The body of dropPatcher and the deferred Unlock.  After the drop of
\* Patcher.Close Job.Close follows; after the drop of a NewPatcher whose
\* session did not begin Patcher.Close follows, which drops again.
ThreadDrop(t) ==
    /\ At(t, "dropping")
    /\ LET r == dropPatcher(store, thr[t].addr)
       IN /\ store' = r.store
          /\ IF r.panic # NoPanic
             THEN Goto(t, "panicked")
             ELSE thr' = [thr EXCEPT ![t].drops = @ + 1,
                                     ![t].pc = IF thr[t].began \/ thr[t].drops > 0
                                               THEN "free" ELSE "drop"]
    /\ lock' = 0
    /\ UNCHANGED heap

\* Job.Close frees the descriptor.
ThreadFree(t) ==
    /\ At(t, "free")
    /\ heap' = heap \ {thr[t].addr}
    /\ Goto(t, "closed")
    /\ UNCHANGED <<store, lock>>

InitThreads == ObjectInit /\ kind = "patcher" /\ AuxIdle

NextThreads ==
    \E t \in Threads :
       \/ ThreadNewJob(t) /\ UNCHANGED <<objectVars, reg, life, cfg, ld, sumset, hp>>
       \/ ThreadLock(t) /\ UNCHANGED <<objectVars, reg, life, cfg, ld, sumset, hp>>
       \/ ThreadStore(t) /\ UNCHANGED <<objectVars, reg, life, cfg, ld, sumset, hp>>
       \/ ThreadCallback(t) /\ UNCHANGED <<objectVars, reg, life, cfg, ld, sumset, hp>>
       \/ ThreadGet(t) /\ UNCHANGED <<objectVars, reg, life, cfg, ld, sumset, hp>>
       \/ ThreadClose(t) /\ UNCHANGED <<objectVars, reg, life, cfg, ld, sumset, hp>>
       \/ ThreadDrop(t) /\ UNCHANGED <<objectVars, reg, life, cfg, ld, sumset, hp>>
       \/ ThreadFree(t) /\ UNCHANGED <<objectVars, reg, life, cfg, ld, sumset, hp>>

SpecThreads == InitThreads /\ [][NextThreads]_vars

\* ------------------------------------------------------------- NewSignatureGen
\* The block and strong-hash lengths a caller's Config is tried with.
CfgBlockLens == 0..MaxCfgLen \cup {RS_DEFAULT_BLOCK_LEN}
CfgStrongLens == 0..MaxCfgLen \cup {RS_DEFAULT_STRONG_LEN}

\* NewSignatureGen(config, basis): newJob, config.setup(), sig_begin with the
\* three fields; a session that does not begin closes the Job.
SignatureGen(config, via) ==
    /\ cfg.state = "new"
    /\ phase = "new"
    /\ \E addr \in Addrs \cup {0}, began \in BOOLEAN :
         LET c == setup(config, cfg.build)
         IN IF addr = 0
            THEN /\ phase' = "failed"
                 /\ cfg' = [cfg EXCEPT !.state = via, !.called = config,
                                        !.result = "error"]
                 /\ UNCHANGED <<rsbufs, session, freed, running>>
            ELSE IF began
            THEN /\ phase' = "open"
                 /\ cfg' = [cfg EXCEPT !.state = via, !.called = config,
                                        !.args = <<c>>, !.result = "ok"]
                 /\ rsbufs' = addr
                 /\ session' = "live"
                 /\ running' = TRUE
                 /\ UNCHANGED freed
            ELSE LET j == JobClose(addr, "nil", freed)
                 IN /\ phase' = "failed"
                    /\ cfg' = [cfg EXCEPT !.state = via, !.called = config,
                                           !.args = <<c>>,
                                           !.result = "rs_sig_begin failed"]
                    /\ rsbufs' = j.rsbufs
                    /\ session' = j.session
                    /\ freed' = j.freed
                    /\ running' = TRUE
    /\ UNCHANGED <<kind, ctor, pbuf, store, dropped, jerr, avail_in, eof_in,
                   outmem, outLo, outHi>>
    /\ UNCHANGED readVars
    /\ UNCHANGED <<reg, life, thr, lock, heap, ld, sumset, hp>>

NewSignatureGen == SignatureGen(cfg.in, "NewSignatureGen")

\* NewDefaultSignatureGen(basis) is NewSignatureGen(Config{}, basis).
NewDefaultSignatureGen == SignatureGen(ZeroConfig, "NewDefaultSignatureGen")

InitConfig ==
    /\ ObjectInit
    /\ kind = "job"
    /\ reg = NoRegOp
    /\ life = [i \in RegIds |-> "never"]
    /\ thr = [t \in Threads |-> NoThread]
    /\ lock = 0
    /\ heap = {}
    /\ ld = NoLoad
    /\ sumset = NoSumset
    /\ hp = NoHelper
    /\ \E build \in Builds, bl \in CfgBlockLens, sl \in CfgStrongLens,
          compat \in BOOLEAN :
         cfg = [NoCfg EXCEPT !.state = "new", !.build = build,
                  !.in = [BlockLen |-> bl, StrongLen |-> sl, CompatMD4 |-> compat]]

NextConfig ==
    \/ NewSignatureGen
    \/ NewDefaultSignatureGen

SpecConfig == InitConfig /\ [][NextConfig]_vars

\* ------------------------------------------------------------- LoadSignature
\* The buffer of io.Copy (32 KiB) is twice the output staging buffer.
CopyBufLen == 2 * outbufSize

\* newJob and rs_loadsig_begin; the Close of the Job is deferred once the
\* Job exists.
LoadBegin ==
    /\ ld.pc = "start"
    /\ \E addr \in Addrs \cup {0}, began \in BOOLEAN :
         IF addr = 0
         THEN /\ ld' = [ld EXCEPT !.pc = "returned",
                          !.err = "Could not allocate memory for rs_buffers_t object"]
              /\ phase' = "failed"
              /\ UNCHANGED <<rsbufs, session, running>>
         ELSE /\ ld' = [ld EXCEPT !.pc = IF began THEN "copy" ELSE "return",
                          !.job = TRUE, !.began = began,
                          !.err = IF began THEN Nil ELSE "rs_loadsig_begin failed"]
              /\ phase' = "open"
              /\ rsbufs' = addr
              /\ session' = IF began THEN "live" ELSE "nil"
              /\ running' = TRUE
    /\ UNCHANGED <<kind, ctor, pbuf, freed, store, dropped, jerr, avail_in, eof_in,
                   outmem, outLo, outHi>>
    /\ UNCHANGED readVars
    /\ UNCHANGED <<reg, life, thr, lock, heap, cfg, sumset, hp>>

\* io.Copy calls Read of the loading Job with its buffer.
LoadCopyRead ==
    /\ ld.pc = "copy"
    /\ \/ ReadServe(CopyBufLen)
       \/ ReadStopped(CopyBufLen)
       \/ ReadSourceFails(CopyBufLen)
       \/ ReadEnterEngine(CopyBufLen)
    /\ ld' = [ld EXCEPT !.pc = "check"]
    /\ UNCHANGED <<reg, life, thr, lock, heap, cfg, sumset, hp>>

\* io.Copy after Read returned (nr, er): nr bytes go to the nirvana writer,
\* which takes them all; an error ends the loop, and LoadSignature goes on
\* with what io.Copy returns.
LoadCopyCheck ==
    /\ ld.pc = "check"
    /\ call.state = "returned"
    /\ ld' = [ld EXCEPT !.written = @ + call.n,
                        !.err = CopyResult(call.err),
                        !.pc = IF call.err = Nil THEN "copy"
                               ELSE LoadAfterCopy(CopyResult(call.err))]
    /\ UNCHANGED objectVars
    /\ UNCHANGED <<store, reg, life, thr, lock, heap, cfg, sumset, hp>>

\* rs_build_hash_table on the loaded signature.
LoadBuild ==
    /\ ld.pc = "build"
    /\ \E rsret \in EngineStatuses :
         ld' = [ld EXCEPT !.pc = "return", !.builds = @ + 1,
                  !.err = IF rsret # "RS_DONE"
                          THEN "rs_build_hash_table returned " \o rsret ELSE Nil]
    /\ UNCHANGED objectVars
    /\ UNCHANGED <<store, reg, life, thr, lock, heap, cfg, sumset, hp>>

\* LoadSignature returns: the deferred job.Close() runs.
LoadReturn ==
    /\ ld.pc = "return"
    /\ LET c == JobClose(rsbufs, session, freed)
       IN /\ phase' = "closed"
          /\ rsbufs' = c.rsbufs
          /\ session' = c.session
          /\ freed' = c.freed
    /\ ld' = [ld EXCEPT !.pc = "returned", !.closes = @ + 1]
    /\ UNCHANGED <<kind, ctor, pbuf, store, dropped>>
    /\ UNCHANGED jobVars
    /\ UNCHANGED readVars
    /\ UNCHANGED <<reg, life, thr, lock, heap, cfg, sumset, hp>>

InitLoad ==
    /\ ObjectInit
    /\ kind = "job"
    /\ reg = NoRegOp
    /\ life = [i \in RegIds |-> "never"]
    /\ thr = [t \in Threads |-> NoThread]
    /\ lock = 0
    /\ heap = {}
    /\ cfg = NoCfg
    /\ sumset = NoSumset
    /\ hp = NoHelper
    /\ ld = [NoLoad EXCEPT !.pc = "start"]

NextLoad ==
    \/ LoadBegin
    \/ LoadCopyRead
    \/ EngineReturn /\ UNCHANGED auxVars
    \/ LoadCopyCheck
    \/ LoadBuild
    \/ LoadReturn

SpecLoad == InitLoad /\ [][NextLoad]_vars

\* ------------------------------------------------------------- Close, again
\* The caller calls Close on an object that it has closed: Job.Close, or
\* Patcher.Close for a Patcher.
CloseAgain ==
    /\ phase = "closed"
    /\ stack = <<>>
    /\ freed.inbuf < MaxCloses
    /\ IF kind = "patcher"
       THEN LET c == PatcherClose(store, rsbufs, session, pbuf, freed)
            IN /\ phase' = IF c.panic # NoPanic THEN "failed" ELSE "closed"
               /\ rsbufs' = c.rsbufs
               /\ session' = c.session
               /\ pbuf' = c.pbuf
               /\ freed' = c.freed
               /\ store' = c.store
               /\ dropped' = dropped + c.drops
       ELSE LET c == JobClose(rsbufs, session, freed)
            IN /\ phase' = "closed"
               /\ rsbufs' = c.rsbufs
               /\ session' = c.session
               /\ freed' = c.freed
               /\ UNCHANGED <<pbuf, store, dropped>>
    /\ UNCHANGED <<kind, ctor>>
    /\ UNCHANGED jobVars
    /\ UNCHANGED readVars

\* The caller closes the Signature that its delta generator was given, after
\* the generator.
CloseSignature ==
    /\ kind = "job"
    /\ phase \in {"closed", "failed"}
    /\ sumset.frees < MaxCloses
    /\ sumset' = SignatureClose(sumset)
    /\ UNCHANGED <<objectVars, store, reg, life, thr, lock, heap, cfg, ld, hp>>

\* A delta generator comes with the Signature it is given.
InitClose ==
    /\ ObjectInit
    /\ reg = NoRegOp
    /\ life = [i \in RegIds |-> "never"]
    /\ thr = [t \in Threads |-> NoThread]
    /\ lock = 0
    /\ heap = {}
    /\ cfg = NoCfg
    /\ ld = NoLoad
    /\ sumset = IF kind = "job" THEN BuiltSumset ELSE NoSumset
    /\ hp = NoHelper

NextClose ==
    \/ Next
    \/ CloseAgain /\ UNCHANGED auxVars
    \/ CloseSignature

SpecClose == InitClose /\ [][NextClose]_vars

\* ------------------------------------------------------------- CreateDelta, InstantDelta
\* The helper runs step by step; the Job of the model is its delta
\* generator, NewDefaultSignatureGen and LoadSignature are taken by their
\* outcome.
Defer(f) == Append(hp.defers, f)

\* InstantDelta: NewDefaultSignatureGen(basis), defer siggen.Close().
HelperSigGen ==
    /\ hp.pc = "siggen"
    /\ \E ok \in BOOLEAN :
         hp' = IF ok
               THEN [hp EXCEPT !.pc = "loadsig", !.siggen = "open",
                               !.defers = Defer("siggen.Close")]
               ELSE [hp EXCEPT !.pc = "returned", !.err = "rs_sig_begin failed"]
    /\ UNCHANGED <<objectVars, store, reg, life, thr, lock, heap, cfg, ld, sumset>>

\* LoadSignature(signature), defer sig.Close().
HelperLoadSignature ==
    /\ hp.pc = "loadsig"
    /\ \E ok \in BOOLEAN :
         IF ok
         THEN /\ sumset' = BuiltSumset
              /\ hp' = [hp EXCEPT !.pc = "deltagen", !.defers = Defer("sig.Close")]
         ELSE /\ hp' = [hp EXCEPT !.pc = "return", !.err = "LoadSignature failed"]
              /\ UNCHANGED sumset
    /\ UNCHANGED <<objectVars, store, reg, life, thr, lock, heap, cfg, ld>>

\* NewDeltaGen(sig, newfile), defer deltagen.Close().
HelperNewDeltaGen ==
    /\ hp.pc = "deltagen"
    /\ NewDeltaGen
    /\ hp' = IF phase' = "open"
             THEN [hp EXCEPT !.pc = "copy", !.defers = Defer("deltagen.Close")]
             ELSE [hp EXCEPT !.pc = "return", !.err = "NewDeltaGen failed"]
    /\ UNCHANGED <<reg, life, thr, lock, heap, cfg, ld, sumset>>

\* io.Copy(delta, deltagen) calls Read of the generator.
HelperCopyRead ==
    /\ hp.pc = "copy"
    /\ \/ ReadServe(CopyBufLen)
       \/ ReadStopped(CopyBufLen)
       \/ ReadSourceFails(CopyBufLen)
       \/ ReadEnterEngine(CopyBufLen)
    /\ hp' = [hp EXCEPT !.pc = "check"]
    /\ UNCHANGED <<reg, life, thr, lock, heap, cfg, ld, sumset>>

\* io.Copy writes what Read returned to the delta writer and goes on or ends.
HelperCopyCheck ==
    /\ hp.pc = "check"
    /\ call.state = "returned"
    /\ \E ew \in {Nil, "ErrIO1"} :
         LET c == CopyStep(call.n, call.err, ew)
         IN hp' = IF c.done
                  THEN [hp EXCEPT !.pc = "return", !.err = c.err, !.copied = TRUE]
                  ELSE [hp EXCEPT !.pc = "copy"]
    /\ UNCHANGED <<objectVars, store, reg, life, thr, lock, heap, cfg, ld, sumset>>

\* The helper returns: one deferred call runs.
HelperDeferred ==
    /\ hp.pc = "return"
    /\ hp.defers # <<>>
    /\ LET r == RunDeferred(hp.defers)
       IN CASE r.call = "deltagen.Close" ->
                 LET c == JobClose(rsbufs, session, freed)
                 IN /\ phase' = "closed"
                    /\ rsbufs' = c.rsbufs
                    /\ session' = c.session
                    /\ freed' = c.freed
                    /\ hp' = [hp EXCEPT !.defers = r.rest]
                    /\ UNCHANGED sumset
            [] r.call = "sig.Close" ->
                 /\ sumset' = SignatureClose(sumset)
                 /\ hp' = [hp EXCEPT !.defers = r.rest]
                 /\ UNCHANGED <<phase, rsbufs, session, freed>>
            [] r.call = "siggen.Close" ->
                 /\ hp' = [hp EXCEPT !.defers = r.rest, !.siggen = "closed"]
                 /\ UNCHANGED <<phase, rsbufs, session, freed, sumset>>
    /\ UNCHANGED <<kind, ctor, pbuf, store, dropped>>
    /\ UNCHANGED jobVars
    /\ UNCHANGED readVars
    /\ UNCHANGED <<reg, life, thr, lock, heap, cfg, ld>>

\* All deferred calls have run.
HelperReturned ==
    /\ hp.pc = "return"
    /\ hp.defers = <<>>
    /\ hp' = [hp EXCEPT !.pc = "returned"]
    /\ UNCHANGED <<objectVars, store, reg, life, thr, lock, heap, cfg, ld, sumset>>

InitHelpers ==
    /\ ObjectInit
    /\ kind = "job"
    /\ reg = NoRegOp
    /\ life = [i \in RegIds |-> "never"]
    /\ thr = [t \in Threads |-> NoThread]
    /\ lock = 0
    /\ heap = {}
    /\ cfg = NoCfg
    /\ ld = NoLoad
    /\ sumset = NoSumset
    /\ \/ hp = [NoHelper EXCEPT !.fn = "CreateDelta", !.pc = "loadsig"]
       \/ hp = [NoHelper EXCEPT !.fn = "InstantDelta", !.pc = "siggen"]

NextHelpers ==
    \/ HelperSigGen
    \/ HelperLoadSignature
    \/ HelperNewDeltaGen
    \/ HelperCopyRead
    \/ EngineReturn /\ UNCHANGED auxVars
    \/ HelperCopyCheck
    \/ HelperDeferred
    \/ HelperReturned

SpecHelpers == InitHelpers /\ [][NextHelpers]_vars

\* ------------------------------------------------------------- a caller that reads on
\* The caller does not close the object and calls Read with a buffer that is
\* not empty, again and again; the engine does not report RS_BLOCKED in the
\* last of the iterations it is allowed.
ReadOn ==
    \E lenP \in 1..MaxLenP :
       \/ ReadServe(lenP)
       \/ ReadStopped(lenP)
       \/ ReadSourceFails(lenP)
       \/ ReadEnterEngine(lenP)

EngineReturnInTime ==
    /\ EngineReturn
    /\ iters = MaxIters => hist'.res # "RS_BLOCKED"

NextLive ==
    \/ NewDeltaGen /\ UNCHANGED auxVars
    \/ NewPatcher /\ UNCHANGED auxVars
    \/ ReadOn /\ UNCHANGED auxVars
    \/ EngineCallback /\ UNCHANGED auxVars
    \/ EngineReturnInTime /\ UNCHANGED auxVars
    \/ Unwind /\ UNCHANGED auxVars

SpecLive == Init /\ [][NextLive]_vars /\ WF_vars(NextLive)

\* ------------------------------------------------------------- claims
ReadReturned == call.state = "returned"

\* C2: after an engine iteration reported a failure status, every later Read
\* returns that same error.
C2_LaterReadsReturnEngineError ==
    (ReadReturned /\ call.pre.iterFail # Nil) => call.err = call.pre.iterFail

\* C3: every Read(p) returns a count n with 0 <= n <= len(p), and exactly the
\* first n bytes of p hold the next n bytes of the generated output that were
\* not delivered before.
C3_CountWithinBufferAndFilled ==
    ReadReturned =>
        /\ 0 <= call.n
        /\ call.n <= call.lenP
        /\ call.filled = [i \in 1..call.n |-> call.recvBefore + i]

\* C4: a Read called after the engine reported completion and the pending
\* output was served returns zero bytes and end-of-stream, runs no engine
\* iteration and does not read the source.
C4_EndOfStreamAfterDone ==
    (call.state # "none" /\ call.pre.doneServed) =>
        /\ ReadReturned
        /\ call.n = 0
        /\ call.err = EOF
        /\ ~call.ranIter
        /\ ~call.readSrc

C4_Witness ==
    /\ ReadReturned
    /\ call.pre.doneServed
    /\ gen > 0
    /\ Len(recv) = gen

\* C5: a Read whose source read fails with an error other than end-of-data
\* returns zero bytes and that error and runs no engine iteration; from then
\* on no engine iteration runs and every Read returns the same error.
C5_SourceErrorStopsTheJob ==
    /\ (call.readSrc /\ call.srcErr \notin {Nil, EOF}) =>
          /\ ReadReturned
          /\ call.n = 0
          /\ call.err = call.srcErr
          /\ ~call.ranIter
    /\ (call.state # "none" /\ call.pre.srcFail # Nil) =>
          /\ ReadReturned
          /\ call.n = 0
          /\ call.err = call.pre.srcFail
          /\ ~call.ranIter
    /\ hist.srcFail # Nil => stack = <<>> /\ ~running

C5_Witness ==
    /\ ReadReturned
    /\ call.pre.srcFail \in IOErrors
    /\ call.err = call.pre.srcFail
    /\ iters > 0

ShortSourceRead == call.readSrc /\ call.srcN < inbufSize /\ call.srcErr # EOF

\* C6 as stated: a source read that returns fewer bytes than the staging
\* buffer holds, without end-of-data, makes the Job errored and no engine
\* iteration runs on those bytes.
C6_ShortReadIsFatal ==
    ShortSourceRead =>
        /\ ~call.ranIter
        /\ jerr # Nil
        /\ ~running

\* C6 as amended: such a short read is fatal exactly when it comes with an
\* error: then the Job is errored with that error, no engine iteration runs
\* and later Reads return it; with no error the bytes are staged and the
\* engine iteration runs in the same Read.
C6_ShortReadFatalOnlyWithError ==
    /\ ShortSourceRead =>
          IF call.srcErr = Nil
          THEN /\ call.ranIter
               /\ jerr = Nil
               /\ call.state = "running" => avail_in = call.srcN /\ eof_in = 0
          ELSE /\ ~call.ranIter
               /\ ReadReturned
               /\ call.err = call.srcErr
               /\ jerr = call.srcErr
               /\ ~running
    /\ (call.state # "none" /\ call.pre.srcFail # Nil) =>
          call.err = call.pre.srcFail /\ jerr = call.pre.srcFail

C6_Witness ==
    /\ ShortSourceRead
    /\ call.srcErr = Nil
    /\ call.srcN > 0
    /\ call.state = "running"
    /\ avail_in = call.srcN

\* C7: a basis read in the patch callback that returns fewer bytes than
\* requested without end-of-data surfaces as an I/O error from the Read that
\* ran the iteration, and no later Read ends the output with end-of-stream.
C7_ShortBasisReadIsIOError ==
    /\ (ReadReturned /\ call.cbFault) => call.err \in IOErrors
    /\ (ReadReturned /\ call.pre.cbFault) => call.err # EOF

\* C8: a basis read in the patch callback that returns fewer bytes than
\* requested together with end-of-data makes the callback return
\* RS_INPUT_ENDED to the engine, raises no fault, and the Read does not
\* report an I/O error for it.
C8_EndOfDataIsInputEnded ==
    /\ (cb.ret # "none" /\ cb.owner # Nil /\ cb.n < cb.len /\ cb.err = EOF) =>
          /\ cb.ret = "RS_INPUT_ENDED"
          /\ panic = NoPanic
          /\ stack # <<>> /\ Top(stack) = "rs_job_iter"
    /\ (call.cbEnded /\ ~call.cbFault) => call.err \notin IOErrors

C8_Witness ==
    /\ cb.n < cb.len
    /\ cb.err = EOF
    /\ cb.ret = "RS_INPUT_ENDED"
    /\ call.cbEnded

\* C9: a basis failure in the patch callback does not cross the engine's
\* call frame: no panic is in flight while the frame of rs_job_iter is on
\* the stack.
C9_NoFaultAcrossEngineFrame ==
    panic # NoPanic => \A i \in 1..Len(stack) : stack[i] # "rs_job_iter"

\* C10: when the patch session does not begin, NewPatcher returns an error
\* (no fatal registry fault), the id was deregistered exactly once and the
\* registry holds no entry for it.
C10_FailedBeginReturnsError ==
    (kind = "patcher" /\ ctor.beginFailed) =>
        /\ ctor.result = "error"
        /\ dropped = 1
        /\ ctor.id \notin DOMAIN store

\* C12: in a stream read up to end-of-stream with no Read reporting an error,
\* every Read returns exactly the next bytes of the generated stream, in
\* order, whatever the sizes of the caller's buffers; when end-of-stream is
\* returned the bytes received are all the bytes the engine generated.
C12_ChunkingInvariance ==
    /\ (ReadReturned /\ ~call.pre.failed /\ call.err \in {Nil, EOF}) =>
          /\ call.n = Len(call.filled)
          /\ call.filled = [i \in 1..call.n |-> call.recvBefore + i]
          /\ Len(recv) = call.recvBefore + call.n
          /\ recv = [i \in 1..Len(recv) |-> i]
    /\ (ReadReturned /\ ~call.pre.failed /\ call.err = EOF) =>
          recv = [i \in 1..gen |-> i]

\* Buffers smaller than what an iteration produced were used, two iterations
\* ran and the stream ended.
C12_Witness ==
    /\ ReadReturned
    /\ call.err = EOF
    /\ ~call.pre.failed
    /\ iters = 2
    /\ gen > iters
    /\ recv = [i \in 1..gen |-> i]

\* C15: after the one Close of an object that was constructed, whatever Reads
\* came before, the session, the descriptor and the two staging buffers have
\* each been released once, and for a Patcher the registry entry was dropped
\* once and the scratch buffer, when there is one, was released once.
C15_CloseReleasesEachResourceOnce ==
    (ctor.result = "ok" /\ phase \in {"closed", "failed"}) =>
       /\ phase = "closed"
       /\ rsbufs = 0
       /\ session = "nil"
       /\ freed.rsbufs = 1
       /\ freed.session = 1
       /\ freed.inbuf = 1
       /\ freed.outbuf = 1
       /\ kind = "patcher" =>
             /\ dropped = 1
             /\ ctor.id \notin DOMAIN store
             /\ pbuf # "alloc"
             /\ freed.pbuf = (IF pbuf = "freed" THEN 1 ELSE 0)
       /\ kind = "job" => (dropped = 0 /\ freed.pbuf = 0)

\* A Patcher whose callback allocated the scratch buffer was closed after
\* Reads.
C15_Witness ==
    /\ phase = "closed"
    /\ kind = "patcher"
    /\ pbuf = "freed"
    /\ ReadReturned
    /\ iters > 0

\* C16: a Read that finds output pending serves from it and returns, without
\* reading the source and without an engine iteration; an iteration runs
\* only when nothing is pending, so every byte generated before it has been
\* delivered when the staging buffer is written again.
C16_IterationOnlyWhenDrained ==
    /\ (call.state # "none" /\ call.pre.pending > 0) =>
          /\ ReadReturned
          /\ ~call.ranIter
          /\ ~call.readSrc
          /\ call.err = Nil
          /\ call.n = (IF call.pre.pending > call.lenP THEN call.lenP
                       ELSE call.pre.pending)
          /\ Len(call.filled) = call.n
    /\ call.ranIter => call.pre.pending = 0
    /\ stack # <<>> => Len(recv) = gen

\* A Read served a part of the pending output and left the rest queued.
C16_Witness ==
    /\ ReadReturned
    /\ call.pre.pending > call.lenP
    /\ call.lenP > 0
    /\ Len(Pending) > 0

\* C17: a Read that ran an engine iteration which produced k > 0 bytes returns
\* min(k, len(p)) of them in that call and keeps the other k - min(k, len(p))
\* pending.
C17_IterationBytesServedInSameCall ==
    (ReadReturned /\ call.ranIter /\ gen > call.recvBefore) =>
       LET k == gen - call.recvBefore
           m == IF k < call.lenP THEN k ELSE call.lenP
       IN /\ call.n = m
          /\ Len(call.filled) = m
          /\ Len(Pending) = k - m

\* C18: when a basis read of the callback fails with an I/O error, the Read
\* that ran the iteration returns that very error and the Job stops running,
\* no later Read runs an iteration; a panic that is not a jobInternalPanic
\* never becomes the return of Read.
C18_BasisIOErrorStopsJob ==
    /\ (ReadReturned /\ call.cbFault /\ call.cbErr \in IOErrors) =>
          (call.err = call.cbErr /\ ~running)
    /\ (call.state # "none" /\ call.pre.cbFault) => ~call.ranIter
    /\ call.cbOther => ~ReadReturned

\* A basis read failed with an I/O error and the Read returned it.
C18_Witness ==
    /\ ReadReturned
    /\ call.cbFault
    /\ call.cbErr \in IOErrors
    /\ call.err = call.cbErr

\* A panic of the basis itself left Read.
C18_WitnessOtherPanic == call.cbOther /\ call.state = "panicked"

\* C19: the source is read only by a Read that found the input staging
\* buffer empty and the end-of-input flag clear; once the source returned
\* io.EOF the flag stays set (so the source is not read again), and the bytes
\* that came with io.EOF are staged for the iteration.
C19_SourceReadOnlyWhenStagingEmpty ==
    /\ call.readSrc => (call.pre.availIn = 0 /\ call.pre.eofIn = 0)
    /\ hist.srcEOF => eof_in = 1
    /\ (call.readSrc /\ call.srcErr = EOF) =>
          /\ eof_in = 1
          /\ call.state = "running" => avail_in = call.srcN

\* After the source returned io.EOF a later Read ran an iteration without
\* reading the source.
C19_Witness ==
    /\ call.pre.eofIn = 1
    /\ call.ranIter
    /\ ~call.readSrc
    /\ ReadReturned

\* C11: over any sequence of registry calls, storing an id that is registered
\* panics and leaves the registry as it was; dropping an id that is not
\* registered panics; a store succeeds exactly when the id was never stored
\* or was dropped since its last store; getPatcher returns the registered
\* Patcher and leaves the registry as it was.
C11_RegistryDiscipline ==
    /\ (reg.op = "store" /\ reg.id \in DOMAIN reg.before) =>
          (reg.panic # NoPanic /\ store = reg.before)
    /\ (reg.op = "drop" /\ reg.id \notin DOMAIN reg.before) =>
          (reg.panic # NoPanic /\ store = reg.before)
    /\ reg.op = "store" =>
          /\ reg.panic = NoPanic <=> reg.lifeBefore \in {"never", "dropped"}
          /\ reg.panic = NoPanic =>
                /\ store[reg.id] = reg.patcher
                /\ \A i \in DOMAIN reg.before : store[i] = reg.before[i]
    /\ reg.op = "drop" =>
          /\ reg.panic = NoPanic <=> reg.lifeBefore = "stored"
          /\ reg.panic = NoPanic =>
                /\ DOMAIN store = DOMAIN reg.before \ {reg.id}
                /\ \A i \in DOMAIN store : store[i] = reg.before[i]
    /\ reg.op = "get" =>
          /\ store = reg.before
          /\ reg.panic = NoPanic
          /\ reg.got = (IF reg.lifeBefore = "stored" THEN store[reg.id] ELSE Nil)

\* An id that was stored and dropped has been stored again, with another
\* Patcher.
C11_Witness ==
    /\ reg.op = "store"
    /\ reg.lifeBefore = "dropped"
    /\ reg.panic = NoPanic
    /\ store[reg.id] = "Q"

\* A store of a registered id panicked.
C11_WitnessDoubleStore ==
    /\ reg.op = "store"
    /\ reg.lifeBefore = "stored"
    /\ reg.panic # NoPanic

\* C13: with several threads each creating, reading from and closing its own
\* Patcher in any interleaving, at most one thread is inside a registry
\* function's body, every callback's lookup gives the Patcher of the thread
\* that registered the id, and the entry of a Patcher stays in the registry,
\* bound to that Patcher, from its store to its own drop.
InRegistry(t) ==
    \/ thr[t].pc \in {"open", "look", "looking"}
    \/ thr[t].pc \in {"drop", "dropping"} /\ thr[t].drops = 0

C13_RegistryUnderThreads ==
    /\ Cardinality({t \in Threads : thr[t].pc \in Holding}) <= 1
    /\ \A t \in Threads :
          /\ thr[t].got \in {Nil, PatcherOf(t)}
          /\ (thr[t].lookups > 0 /\ thr[t].pc \notin {"look", "looking"}) =>
                thr[t].got = PatcherOf(t)
          /\ InRegistry(t) =>
                (thr[t].addr \in DOMAIN store /\ store[thr[t].addr] = PatcherOf(t))
          /\ thr[t].pc = "panicked" => (~thr[t].began /\ thr[t].drops = 1)

\* Two threads have their Patchers registered at once, one of them has
\* looked its own up while the other holds the lock.
C13_Witness ==
    \E t, u \in Threads :
       /\ t # u
       /\ thr[t].pc = "open"
       /\ thr[t].got = PatcherOf(t)
       /\ thr[u].pc = "looking"
       /\ InRegistry(u)

\* C14: whenever NewSignatureGen reaches sig_begin, the session is begun with
\* the caller's fields where they are not zero, with the defaults where they
\* are zero, and with the caller's compatibility flag; the zero-value Config
\* and the Config that names the defaults begin it with the same three
\* values; resolving a resolved Config changes nothing.
ResolvedDefaults ==
    [BlockLen |-> DefaultBlockLen, StrongLen |-> DefaultStrongLen(cfg.build),
     CompatMD4 |-> FALSE]

C14_DefaultResolution ==
    /\ cfg.args # <<>> =>
          LET a == cfg.args[1]
          IN /\ a.BlockLen = (IF cfg.called.BlockLen = 0 THEN DefaultBlockLen
                              ELSE cfg.called.BlockLen)
             /\ a.StrongLen = (IF cfg.called.StrongLen = 0
                               THEN DefaultStrongLen(cfg.build)
                               ELSE cfg.called.StrongLen)
             /\ a.CompatMD4 = cfg.called.CompatMD4
             /\ cfg.called \in {ZeroConfig, ResolvedDefaults} => a = ResolvedDefaults
    /\ cfg.state # "none" =>
          setup(setup(cfg.in, cfg.build), cfg.build) = setup(cfg.in, cfg.build)

\* The zero-value Config began a session of an engine whose default
\* strong-hash length is not zero.
C14_Witness ==
    /\ cfg.result = "ok"
    /\ cfg.called = ZeroConfig
    /\ cfg.build = "librsync<1.0.0"
    /\ cfg.args = <<ResolvedDefaults>>

\* The Config that names the defaults began a session.
C14_WitnessExplicit ==
    /\ cfg.result = "ok"
    /\ cfg.state = "NewSignatureGen"
    /\ cfg.called = ResolvedDefaults
    /\ cfg.called # ZeroConfig
    /\ cfg.args = <<ResolvedDefaults>>

\* C20: rs_build_hash_table is called at most once, and only after the Read
\* of the loading Job returned io.EOF with no error before it, the engine
\* having reported completion; a LoadSignature whose loading Job failed
\* returns that error without a build, one whose loading succeeded has built
\* once; when LoadSignature has returned, the Job it created has been closed
\* once and each of its resources released once.
C20_BuildOnceAfterCleanLoad ==
    /\ ld.builds <= 1
    /\ (ld.builds = 1 \/ ld.pc = "build") =>
          /\ call.state = "returned"
          /\ call.err = EOF
          /\ ~hist.failed
          /\ hist.engDone
          /\ jerr = Nil
    /\ (ld.pc = "returned" /\ hist.failed) =>
          /\ ld.builds = 0
          /\ ld.err # Nil
          /\ ld.err \in {hist.srcFail, hist.iterFail}
    /\ (ld.pc = "returned" /\ ld.job /\ ~ld.began) =>
          (ld.builds = 0 /\ ld.err # Nil)
    /\ (ld.pc = "returned" /\ ld.began /\ ~hist.failed) => ld.builds = 1
    /\ (ld.pc = "returned" /\ ld.job) =>
          /\ ld.closes = 1
          /\ phase = "closed"
          /\ freed.rsbufs = 1
          /\ freed.inbuf = 1
          /\ freed.outbuf = 1
          /\ freed.session = (IF ld.began THEN 1 ELSE 0)
          /\ rsbufs = 0
          /\ session = "nil"
    /\ ld.pc \notin {"returned", "none"} => ld.closes = 0

\* A signature was loaded over two engine iterations and the index built.
C20_Witness ==
    /\ ld.pc = "returned"
    /\ ld.builds = 1
    /\ ld.err = Nil
    /\ iters = 2
    /\ ld.written = gen
    /\ gen > 0

\* The loading Job failed in the engine and LoadSignature returned the error.
C20_WitnessFailed ==
    /\ ld.pc = "returned"
    /\ hist.iterFail # Nil
    /\ ld.err = hist.iterFail
    /\ ld.builds = 0
    /\ ld.closes = 1

\* C21: a Patcher that NewPatcher returned is in the registry under its id,
\* the address of its descriptor, as long as it is open, which is as long as
\* its session is live; every callback of its Reads finds it; once it is
\* closed the registry has no entry for the id.
C21_RegisteredWhileOpen ==
    kind = "patcher" =>
       /\ phase = "open" =>
             /\ ctor.id = rsbufs
             /\ ctor.id \in DOMAIN store
             /\ store[ctor.id] = "P"
       /\ session = "live" => (ctor.id \in DOMAIN store /\ store[ctor.id] = "P")
       /\ cb.ret # "none" => cb.owner = "P"
       /\ (ctor.result = "ok" /\ phase = "closed") =>
             (ctor.id \notin DOMAIN store /\ getPatcher(store, ctor.id) = Nil)

\* A callback found its Patcher.
C21_Witness ==
    /\ kind = "patcher"
    /\ cb.ret = "RS_DONE"
    /\ cb.owner = "P"
    /\ phase = "open"

\* A Patcher that ran callbacks was closed and is out of the registry.
C21_WitnessClosed ==
    /\ kind = "patcher"
    /\ phase = "closed"
    /\ pbuf = "freed"
    /\ store = <<>>

\* C22: the Read that ran an engine iteration returns, for each status of
\* rs_job_iter, the one outcome of jobIter: RS_DONE not running and no
\* error, RS_BLOCKED running and no error, the four failure statuses not
\* running and their fixed errors, any other status not running and an
\* error that carries the status; running never comes with an error.
C22_StatusMapping ==
    /\ (ReadReturned /\ call.ranIter /\ hist.res # "none") =>
          /\ running = (hist.res = "RS_BLOCKED")
          /\ call.err =
                (CASE hist.res \in {"RS_DONE", "RS_BLOCKED"} -> Nil
                   [] hist.res = "RS_INPUT_ENDED" -> "ErrInputEnded"
                   [] hist.res = "RS_BAD_MAGIC" -> "ErrBadMagic"
                   [] hist.res = "RS_CORRUPT" -> "ErrCorrupt"
                   [] hist.res = "RS_INTERNAL_ERROR" -> "ErrInternal"
                   [] OTHER -> "Unexpected result from library: " \o hist.res)
    /\ (ReadReturned /\ call.ranIter) => ~(running /\ call.err # Nil)

\* A status that jobIter does not enumerate came back from the engine.
C22_Witness ==
    /\ ReadReturned
    /\ call.ranIter
    /\ hist.res \notin {"none", "RS_DONE", "RS_BLOCKED", "RS_INPUT_ENDED",
                        "RS_BAD_MAGIC", "RS_CORRUPT", "RS_INTERNAL_ERROR"}
    /\ ~running
    /\ call.err = "Unexpected result from library: " \o hist.res

\* C25: the registry's keys are addresses of allocated descriptors, a
\* Patcher's entry is dropped before its descriptor is freed, so in every
\* interleaving the Patchers registered at the same time have distinct ids
\* and storePatcher is never called with an id that is registered.
C25_IdsDistinct ==
    /\ DOMAIN store \subseteq heap
    /\ \A t \in Threads :
          /\ InRegistry(t) => thr[t].addr \in heap
          /\ thr[t].pc \in {"store", "storing"} => thr[t].addr \notin DOMAIN store
          /\ thr[t].pc = "panicked" => thr[t].drops = 1
          /\ \A u \in Threads \ {t} :
                (InRegistry(t) /\ InRegistry(u)) => thr[t].addr # thr[u].addr

\* A Patcher is registered under the address that a closed Patcher of
\* another thread had.
C25_Witness ==
    \E t, u \in Threads :
       /\ t # u
       /\ thr[u].pc = "closed"
       /\ thr[u].lookups > 0
       /\ InRegistry(t)
       /\ thr[t].addr = thr[u].addr
       /\ store[thr[t].addr] = PatcherOf(t)

\* C23: in CreateDelta and InstantDelta, while the delta generator is open
\* the index it was given is built, built once and not freed; the index is
\* freed only when the helper is returning, after the copy of the delta
\* stream ended and after the generator was closed; a helper that has
\* returned has closed the generator it created and freed the index it
\* loaded, once.
C23_GeneratorReleasedBeforeIndex ==
    /\ sumset.builds <= 1
    /\ phase = "open" =>
          (sumset.state = "built" /\ sumset.builds = 1 /\ sumset.frees = 0)
    /\ sumset.frees > 0 =>
          /\ hp.pc \in {"return", "returned"}
          /\ phase # "open"
          /\ ctor.result = "ok" =>
                (hp.copied /\ phase = "closed" /\ freed.rsbufs = 1)
    /\ hp.pc = "returned" =>
          /\ hp.defers = <<>>
          /\ sumset.state # "none" => (sumset.state = "freed" /\ sumset.frees = 1)
          /\ ctor.result = "ok" => (phase = "closed" /\ freed.rsbufs = 1)

\* InstantDelta copied a delta and returned.
C23_Witness ==
    /\ hp.fn = "InstantDelta"
    /\ hp.pc = "returned"
    /\ hp.err = Nil
    /\ hp.copied
    /\ gen > 0
    /\ phase = "closed"
    /\ sumset.frees = 1
    /\ hp.siggen = "closed"

\* C24: whatever Close calls are made on one Job, Patcher or Signature, no
\* resource is released more than once and no Close of a Patcher that was
\* constructed panics.
C24_CloseIsIdempotent ==
    /\ freed.rsbufs <= 1
    /\ freed.session <= 1
    /\ freed.inbuf <= 1
    /\ freed.outbuf <= 1
    /\ freed.pbuf <= 1
    /\ dropped <= 1
    /\ sumset.frees <= 1
    /\ ~(ctor.result = "ok" /\ phase = "failed")

\* C26: a caller that keeps calling Read with a buffer that is not empty, on
\* a Job whose engine completes or fails within the iterations it is
\* allowed, eventually gets io.EOF or an error from a Read that found no
\* output pending, all bytes of the earlier iterations having been received
\* in order (with io.EOF: all bytes the engine generated), unless a panic of
\* the basis itself ended the Read.
ReadEnded ==
    \/ /\ ReadReturned
       /\ call.err # Nil
       /\ call.pre.pending = 0
       /\ Len(recv) = call.recvBefore
       /\ recv = [i \in 1..Len(recv) |-> i]
       /\ call.err = EOF => Len(recv) = gen
    \/ call.state = "panicked"

C26_Termination == (phase = "open") ~> ReadEnded

\* The stream ended after the engine ran all its iterations and produced
\* more than one Read of the caller could take.
C26_Witness ==
    /\ ReadReturned
    /\ call.err = EOF
    /\ iters = MaxIters
    /\ call.lenP < gen
    /\ Len(recv) = gen
    /\ hist.srcEOF

====
